---- MODULE Spec2Model ----
(***************************************************************************)
(* Model of the guided breathing widget (App component, constants, types). *)
(* Time is in milliseconds (performance.now(), requestAnimationFrame       *)
(* timestamps, setTimeout delays).  React state and refs are variables; a  *)
(* handler is one action, including the re-render effects it triggers.     *)
(* Callbacks handed to setTimeout keep the values of the render in which   *)
(* they were created: these captured values are stored with the timer.     *)
(***************************************************************************)
EXTENDS Integers, Sequences, FiniteSets

\* ---------------------------------------------------------------- bounds
\* The clock stops advancing at MaxNow.
MaxNow == 360000

\* Session-timer runs.  The clock is observed at the fine gaps FineDeltas
\* during the first FineSpan ms and at every multiple of CoarseStep.
FineDeltas == {4000, 6000}
FineSpan == 16000
CoarseStep == 60000

\* Music runs.  The clock is observed at every multiple of MusicStep up to
\* MaxNowMusic, and when a timeout comes due within MusicSpan ms of one.
MusicStep == 120000
MusicSpan == 3200
MaxNowMusic == 123200

\* Phase runs.  The clock is observed every PhaseStep ms up to MaxNowPhase.
PhaseStep == 500
MaxNowPhase == 8000

\* Liveness runs.  The clock stops advancing at MaxNowLive.
MaxNowLive == 126000

\* Volume runs.  The clock stops advancing at MaxNowVolume.
MaxNowVolume == 3000

\* timer-handle runs: the clock step and the horizon
HandleStep == 1500
MaxNowHandles == 3000

\* Slider positions the user picks (the slider ranges over 0..100).
Volumes == {0, 40}

\* ------------------------------------------------------------- constants
DURATION_OPTIONS == {120, 180, 300}
DEFAULT_DURATION == 120

PhaseOrder == <<"inhale", "holdIn", "exhale", "holdOut">>

PHASES ==
  [inhale  |-> [duration |-> 4000, announcement |-> "inhale start"],
   holdIn  |-> [duration |-> 2000, announcement |-> "holdIn start"],
   exhale  |-> [duration |-> 6000, announcement |-> "exhale start"],
   holdOut |-> [duration |-> 4000, announcement |-> "holdOut start"]]

RECURSIVE SumDurations(_)
SumDurations(i) ==
  IF i = 0 THEN 0 ELSE SumDurations(i - 1) + PHASES[PhaseOrder[i]].duration

CYCLE_DURATION == SumDurations(Len(PhaseOrder))

WATCHDOG_DELAY == 3000
RESTART_DELAY == 100
DEFAULT_VOLUME == 40
SMOOTH_STEPS == 10

Keys == {"Enter", " ", "Escape", "a"}

NoTimer == [armed |-> FALSE]

\* ----------------------------------------------------------------- state
VARIABLES
  now,              \* performance.now()
  hidden,           \* document.hidden
  appState, duration, remainingTime, currentPhase, ariaAnnouncement,
  startTimeRef, pauseTimeRef, lastPhaseRef,
  framePending,     \* a requestAnimationFrame(tick) callback is pending
  restartTimer,     \* setTimeout(handleStart, 100) with its captured render
  isMuted, volume, useFallback, showYoutubeError,
  fallbackTimeoutRef, \* the watchdog handle held by the ref
  watchdogs,        \* pending watchdog timeouts, each with its captured render
  ytPlayer,         \* "null" | "ready"
  ytState, ytMuted, ytVolume, ytRewound,
  fbPlaying, fbMuted, fbVolume, fbRewound,
  smoothVolumeInterval, \* the smoothing interval handle (module-level let)
  intervals,        \* pending smoothing intervals, each with its closure
  mounted,          \* volume and isMuted of the first render (onReady closure)
  frameRan,         \* scheduling: a frame callback ran at this clock value
  playRequest,      \* history: the backend the last step asked to play, if any
  activeTime,       \* history: time spent Active since the last Start
  playReqAt         \* history: time of the last play request on primary that
                    \* was neither answered by playing nor withdrawn by a
                    \* pause or stop, -1 if none

timerVars == <<appState, duration, remainingTime, currentPhase, ariaAnnouncement,
               startTimeRef, pauseTimeRef, lastPhaseRef, framePending, restartTimer>>
prefVars == <<isMuted, volume>>
ytVars == <<ytPlayer, ytState, ytMuted, ytVolume, ytRewound, mounted>>
fbVars == <<fbPlaying, fbMuted, fbVolume, fbRewound>>
modeVars == <<useFallback, showYoutubeError>>
wdVars == <<fallbackTimeoutRef, watchdogs, playReqAt>>
smoothVars == <<smoothVolumeInterval, intervals>>
musicVars == <<prefVars, ytVars, fbVars, modeVars, wdVars, smoothVars, playRequest>>
histVars == <<frameRan, activeTime>>
vars == <<now, hidden, timerVars, musicVars, histVars>>

\* --------------------------------------------------------------- helpers
Max(a, b) == IF a >= b THEN a ELSE b

\* Math.ceil(x / 1000) for an integer x >= 0
CeilSeconds(x) == (x + 999) \div 1000

\* JavaScript's %: the result takes the sign of the dividend
JsRem(a, b) == IF a >= 0 THEN a % b ELSE 0 - ((0 - a) % b)

\* PhaseLoop with the comparison elapsedInCycle <= cumulativeDuration
RECURSIVE PhaseLoopInclusive(_, _, _)
PhaseLoopInclusive(i, cumulativeDuration, elapsedInCycle) ==
  IF i > Len(PhaseOrder) THEN "holdOut"
  ELSE LET c == cumulativeDuration + PHASES[PhaseOrder[i]].duration
       IN  IF elapsedInCycle <= c THEN PhaseOrder[i]
           ELSE PhaseLoopInclusive(i + 1, c, elapsedInCycle)

\* the for-loop of tick: the first phase whose cumulative duration exceeds
\* elapsedInCycle, holdOut when there is none
RECURSIVE PhaseLoop(_, _, _)
PhaseLoop(i, cumulativeDuration, elapsedInCycle) ==
  IF i > Len(PhaseOrder) THEN "holdOut"
  ELSE LET c == cumulativeDuration + PHASES[PhaseOrder[i]].duration
       IN  IF elapsedInCycle < c THEN PhaseOrder[i]
           ELSE PhaseLoop(i + 1, c, elapsedInCycle)

PhaseAt(elapsed) == PhaseLoop(1, 0, JsRem(elapsed, CYCLE_DURATION))

\* ------------------------------------------------------ music controller
\* The music controller's state as one record, so that playMusic, pauseMusic
\* and stopMusic compose inside the handlers that call them.
Music ==
  [useFallback |-> useFallback, showYoutubeError |-> showYoutubeError,
   fallbackTimeoutRef |-> fallbackTimeoutRef, watchdogs |-> watchdogs,
   ytState |-> ytState, ytMuted |-> ytMuted, ytVolume |-> ytVolume,
   ytRewound |-> ytRewound,
   fbPlaying |-> fbPlaying, fbMuted |-> fbMuted, fbVolume |-> fbVolume,
   fbRewound |-> fbRewound,
   playRequest |-> "none", playReqAt |-> playReqAt]

SetMusic(m) ==
  /\ useFallback' = m.useFallback
  /\ showYoutubeError' = m.showYoutubeError
  /\ fallbackTimeoutRef' = m.fallbackTimeoutRef
  /\ watchdogs' = m.watchdogs
  /\ ytState' = m.ytState
  /\ ytMuted' = m.ytMuted
  /\ ytVolume' = m.ytVolume
  /\ ytRewound' = m.ytRewound
  /\ fbPlaying' = m.fbPlaying
  /\ fbMuted' = m.fbMuted
  /\ fbVolume' = m.fbVolume
  /\ fbRewound' = m.fbRewound
  /\ playRequest' = m.playRequest
  /\ playReqAt' = m.playReqAt

\* The values of one render that playMusic and the callbacks it creates close over.
Render == [useFallback |-> useFallback, volume |-> volume, isMuted |-> isMuted,
           duration |-> duration]

\* fallbackTimeoutRef.current is reset without clearTimeout: the timeout stays
\* pending
ClearWatchdogKeepsTimeout(m) ==
  [m EXCEPT !.watchdogs = @, !.fallbackTimeoutRef = NoTimer]

\* clearTimeout(fallbackTimeoutRef.current).  The handle of a timeout that was
\* cleared or has run names no timer any more: the ref is NoTimer then.
ClearWatchdog(m) ==
  [m EXCEPT !.watchdogs = @ \ {m.fallbackTimeoutRef}, !.fallbackTimeoutRef = NoTimer]

\* ytPlayer.playVideo(): the player starts loading when it accepts the request
\* and stays as it is when the browser blocks playback
PlayVideo(st, accepted) ==
  IF st = "PLAYING" THEN "PLAYING" ELSE IF accepted THEN "BUFFERING" ELSE st

\* ytPlayer.pauseVideo()
PauseVideo(st) == IF st \in {"PLAYING", "BUFFERING"} THEN "PAUSED" ELSE st

\* playMusic of render r; accepted: whether the backend honours the request
playMusic(m, r, accepted) ==
  IF r.useFallback
  THEN [m EXCEPT !.fbPlaying = (@ \/ accepted),
                 !.fbRewound = (@ /\ ~accepted),
                 !.playRequest = "fallback"]
  ELSE IF ytPlayer = "ready"
  THEN LET w == [armed |-> TRUE, deadline |-> now + WATCHDOG_DELAY,
                 volume |-> r.volume, isMuted |-> r.isMuted]
           c == ClearWatchdog(m)
       IN  [c EXCEPT !.ytState = PlayVideo(@, accepted),
                     !.watchdogs = @ \cup {w},
                     !.fallbackTimeoutRef = w,
                     !.playRequest = "primary",
                     !.playReqAt = IF m.ytState = "PLAYING" THEN -1 ELSE now]
  ELSE [m EXCEPT !.playRequest = "primary", !.playReqAt = now]

\* pauseMusic without the clearTimeout of the watchdog
pauseMusicKeepsWatchdog(m) ==
  LET c == [m EXCEPT !.playReqAt = -1]
  IN  IF m.useFallback
      THEN [c EXCEPT !.fbPlaying = FALSE]
      ELSE IF ytPlayer = "ready"
      THEN [c EXCEPT !.ytState = PauseVideo(@)]
      ELSE c

\* (pausing or stopping withdraws the play request: playReqAt is -1 again)
pauseMusic(m) ==
  LET c == [ClearWatchdog(m) EXCEPT !.playReqAt = -1]
  IN  IF m.useFallback
      THEN [c EXCEPT !.fbPlaying = FALSE]
      ELSE IF ytPlayer = "ready"
      THEN [c EXCEPT !.ytState = PauseVideo(@)]
      ELSE c

\* stopMusic that clears the watchdog and leaves the backend as it is
stopMusicLeavesBackend(m) ==
  [ClearWatchdog(m) EXCEPT !.playReqAt = -1]

stopMusic(m) ==
  LET c == [ClearWatchdog(m) EXCEPT !.playReqAt = -1]
  IN  IF m.useFallback
      THEN [c EXCEPT !.fbPlaying = FALSE, !.fbRewound = TRUE]
      ELSE IF ytPlayer = "ready"
      THEN [c EXCEPT !.ytState = PauseVideo(@), !.ytRewound = TRUE]
      ELSE c

\* --------------------------------------------------------- session timer
\* the frame effect without any cancellation: the frame stays requested
FrameEffectNeverCancels(newState) == newState \in {"Active", "Paused", "Idle", "Complete"}

\* the frame effect without the cancellation of the pending frame on Pause
FrameEffectKeepsPaused(newState) == newState \in {"Active", "Paused"}

\* useEffect on [appState, tick]: a frame is requested while Active and the
\* pending one is cancelled otherwise
FrameEffect(newState) == newState = "Active"

\* handleStart without the reset of lastPhaseRef
handleStartKeepsLastPhase(r, accepted) ==
  /\ remainingTime' = r.duration
  /\ SetMusic(IF ~r.isMuted THEN playMusic(Music, r, accepted) ELSE Music)
  /\ appState' = "Active"
  /\ startTimeRef' = now
  /\ pauseTimeRef' = 0
  /\ framePending' = FrameEffect("Active")
  /\ activeTime' = 0
  /\ UNCHANGED frameRan
  /\ UNCHANGED <<now, hidden, duration, currentPhase, ariaAnnouncement,
                 lastPhaseRef, prefVars, ytPlayer, mounted, smoothVars>>

\* handleStart of render r (the current render for the button and the Enter
\* key, the render of the click on Restart for the delayed call)
handleStart(r, accepted) ==
  /\ remainingTime' = r.duration
  /\ SetMusic(IF ~r.isMuted THEN playMusic(Music, r, accepted) ELSE Music)
  /\ appState' = "Active"
  /\ startTimeRef' = now
  /\ pauseTimeRef' = 0
  /\ lastPhaseRef' = "null"
  /\ framePending' = FrameEffect("Active")
  /\ activeTime' = 0
  /\ UNCHANGED frameRan
  /\ UNCHANGED <<now, hidden, duration, currentPhase, ariaAnnouncement,
                 prefVars, ytPlayer, mounted, smoothVars>>

handlePause ==
  /\ SetMusic(pauseMusic(Music))
  /\ appState' = "Paused"
  /\ pauseTimeRef' = now
  /\ framePending' = FrameEffect("Paused")
  /\ UNCHANGED <<now, duration, remainingTime, currentPhase, ariaAnnouncement,
                 startTimeRef, lastPhaseRef, restartTimer, histVars,
                 prefVars, ytPlayer, mounted, smoothVars>>

\* handleResume without the shift of startTimeRef by the pause
handleResumeNoShift(accepted) ==
  /\ SetMusic(IF ~isMuted THEN playMusic(Music, Render, accepted) ELSE Music)
  /\ appState' = "Active"
  /\ framePending' = FrameEffect("Active")
  /\ UNCHANGED <<now, hidden, duration, remainingTime, currentPhase,
                 ariaAnnouncement, startTimeRef, pauseTimeRef, lastPhaseRef,
                 restartTimer, histVars, prefVars, ytPlayer, mounted, smoothVars>>

handleResume(accepted) ==
  /\ SetMusic(IF ~isMuted THEN playMusic(Music, Render, accepted) ELSE Music)
  /\ LET pauseDuration == now - pauseTimeRef
     IN  startTimeRef' = startTimeRef + pauseDuration
  /\ appState' = "Active"
  /\ framePending' = FrameEffect("Active")
  /\ UNCHANGED <<now, hidden, duration, remainingTime, currentPhase,
                 ariaAnnouncement, pauseTimeRef, lastPhaseRef, restartTimer,
                 histVars, prefVars, ytPlayer, mounted, smoothVars>>

\* handleEnd that also goes back to the primary backend and hides the error
handleEndResetsBackend ==
  /\ SetMusic([stopMusic(Music) EXCEPT !.useFallback = FALSE,
                                       !.showYoutubeError = FALSE])
  /\ appState' = "Idle"
  /\ framePending' = FrameEffect("Idle")
  /\ UNCHANGED <<now, hidden, duration, remainingTime, currentPhase,
                 ariaAnnouncement, startTimeRef, pauseTimeRef, lastPhaseRef,
                 restartTimer, histVars, prefVars, ytPlayer, mounted, smoothVars>>

handleEnd ==
  /\ SetMusic(stopMusic(Music))
  /\ appState' = "Idle"
  /\ framePending' = FrameEffect("Idle")
  /\ UNCHANGED <<now, hidden, duration, remainingTime, currentPhase,
                 ariaAnnouncement, startTimeRef, pauseTimeRef, lastPhaseRef,
                 restartTimer, histVars, prefVars, ytPlayer, mounted, smoothVars>>

handleComplete ==
  /\ SetMusic(stopMusic(Music))
  /\ appState' = "Complete"
  /\ ariaAnnouncement' = "session complete"

handleRestart ==
  /\ appState' = "Idle"
  /\ restartTimer' = [armed |-> TRUE, deadline |-> now + RESTART_DELAY,
                      render |-> Render]
  /\ framePending' = FrameEffect("Idle")
  /\ UNCHANGED <<now, hidden, duration, remainingTime, currentPhase,
                 ariaAnnouncement, startTimeRef, pauseTimeRef, lastPhaseRef,
                 histVars, musicVars>>

\* tick with the completion test newRemainingTime < 0
tickStrictCompletion(timestamp) ==
  LET elapsed == timestamp - startTimeRef
      newRemainingTime == Max(0, duration * 1000 - elapsed)
      phase == PhaseAt(elapsed)
  IN  /\ remainingTime' = CeilSeconds(newRemainingTime)
      /\ IF newRemainingTime < 0
         THEN /\ handleComplete
              /\ framePending' = FrameEffect("Complete")
              /\ UNCHANGED <<currentPhase, lastPhaseRef>>
         ELSE /\ currentPhase' = phase
              /\ IF phase # lastPhaseRef
                 THEN /\ ariaAnnouncement' = PHASES[phase].announcement
                      /\ lastPhaseRef' = phase
                 ELSE UNCHANGED <<ariaAnnouncement, lastPhaseRef>>
              /\ framePending' = TRUE
              /\ UNCHANGED <<appState, musicVars>>
      /\ UNCHANGED <<now, hidden, duration, startTimeRef, pauseTimeRef,
                     restartTimer, activeTime, prefVars, ytPlayer, mounted,
                     smoothVars>>
      /\ frameRan' = TRUE

\* tick(timestamp)
tick(timestamp) ==
  LET elapsed == timestamp - startTimeRef
      newRemainingTime == Max(0, duration * 1000 - elapsed)
      phase == PhaseAt(elapsed)
  IN  /\ remainingTime' = CeilSeconds(newRemainingTime)
      /\ IF newRemainingTime <= 0
         THEN /\ handleComplete
              /\ framePending' = FrameEffect("Complete")
              /\ UNCHANGED <<currentPhase, lastPhaseRef>>
         ELSE /\ currentPhase' = phase
              /\ IF phase # lastPhaseRef
                 THEN /\ ariaAnnouncement' = PHASES[phase].announcement
                      /\ lastPhaseRef' = phase
                 ELSE UNCHANGED <<ariaAnnouncement, lastPhaseRef>>
              /\ framePending' = TRUE
              /\ UNCHANGED <<appState, musicVars>>
      /\ UNCHANGED <<now, hidden, duration, startTimeRef, pauseTimeRef,
                     restartTimer, activeTime, prefVars, ytPlayer, mounted,
                     smoothVars>>
      /\ frameRan' = TRUE

\* ------------------------------------------------------ music handlers
\* handleMuteToggle that asks for playback on unmute in every session state
handleMuteToggleAnyState(accepted) ==
  LET newMutedState == ~isMuted
      m1 == IF useFallback THEN [Music EXCEPT !.fbMuted = newMutedState]
            ELSE IF ytPlayer = "ready" THEN [Music EXCEPT !.ytMuted = newMutedState]
            ELSE Music
      m2 == IF ~newMutedState THEN playMusic(m1, Render, accepted) ELSE m1
      m3 == IF newMutedState THEN pauseMusic(m2) ELSE m2
  IN  /\ isMuted' = newMutedState
      /\ SetMusic(m3)
      /\ UNCHANGED <<now, hidden, timerVars, volume, ytPlayer, mounted,
                     smoothVars, histVars>>

handleMuteToggle(accepted) ==
  LET newMutedState == ~isMuted
      m1 == IF useFallback THEN [Music EXCEPT !.fbMuted = newMutedState]
            ELSE IF ytPlayer = "ready" THEN [Music EXCEPT !.ytMuted = newMutedState]
            ELSE Music
      m2 == IF ~newMutedState /\ appState \in {"Active", "Paused"}
            THEN playMusic(m1, Render, accepted) ELSE m1
      m3 == IF newMutedState THEN pauseMusic(m2) ELSE m2
  IN  /\ isMuted' = newMutedState
      /\ SetMusic(m3)
      /\ UNCHANGED <<now, hidden, timerVars, volume, ytPlayer, mounted,
                     smoothVars, histVars>>

\* Math.round(from + step * i) with step = (targetVolume - from) / steps
SmoothValue(from, targetVolume, i) ==
  (2 * (SMOOTH_STEPS * from + (targetVolume - from) * i) + SMOOTH_STEPS)
    \div (2 * SMOOTH_STEPS)

\* smoothSetVolume(targetVolume), called with a player that is ready
smoothSetVolume(targetVolume) ==
  LET it == [armed |-> TRUE, from |-> ytVolume, target |-> targetVolume, i |-> 0]
  IN  /\ smoothVolumeInterval' = it
      /\ intervals' = (intervals \ {smoothVolumeInterval}) \cup {it}

handleVolumeChange(newVolume) ==
  /\ volume' = newVolume
  /\ IF useFallback
     THEN LET newMutedState == (newVolume = 0)
          IN  /\ fbVolume' = newVolume
              /\ IF fbMuted # newMutedState
                 THEN fbMuted' = newMutedState /\ isMuted' = newMutedState
                 ELSE UNCHANGED <<fbMuted, isMuted>>
              /\ UNCHANGED <<ytMuted, smoothVars>>
     ELSE IF ytPlayer = "ready" /\ ytState # "UNSTARTED"
     THEN /\ smoothSetVolume(newVolume)
          /\ IF newVolume > 0 /\ ytMuted
             THEN ytMuted' = FALSE /\ isMuted' = FALSE
             ELSE IF newVolume = 0 /\ ~ytMuted
             THEN ytMuted' = TRUE /\ isMuted' = TRUE
             ELSE UNCHANGED <<ytMuted, isMuted>>
          /\ UNCHANGED <<fbVolume, fbMuted>>
     ELSE UNCHANGED <<isMuted, ytMuted, fbVolume, fbMuted, smoothVars>>
  /\ playRequest' = "none"
  /\ UNCHANGED <<now, hidden, timerVars, histVars, modeVars, wdVars, ytPlayer,
                 ytState, ytVolume, ytRewound, mounted, fbPlaying, fbRewound>>

\* one run of the setInterval callback of smoothSetVolume
SmoothStep(it) ==
  LET i == it.i + 1
      newVol == SmoothValue(it.from, it.target, i)
      next == [it EXCEPT !.i = i]
  IN  /\ it \in intervals
      /\ ytVolume' = IF ytPlayer = "ready" THEN newVol ELSE ytVolume
      /\ IF i >= SMOOTH_STEPS
         THEN /\ intervals' = (intervals \ {it}) \ {smoothVolumeInterval}
              /\ smoothVolumeInterval' = NoTimer
         ELSE /\ intervals' = (intervals \ {it}) \cup {next}
              /\ smoothVolumeInterval' =
                   IF smoothVolumeInterval = it THEN next ELSE smoothVolumeInterval
      /\ playRequest' = "none"
      /\ UNCHANGED <<now, hidden, timerVars, histVars, prefVars, modeVars, wdVars,
                     ytPlayer, ytState, ytMuted, ytRewound, mounted, fbVars>>

\* the watchdog armed by playMusic comes due
WatchdogFires(w, accepted) ==
  /\ w \in watchdogs
  /\ now >= w.deadline
  /\ watchdogs' = watchdogs \ {w}
  /\ fallbackTimeoutRef' = IF fallbackTimeoutRef = w THEN NoTimer ELSE fallbackTimeoutRef
  /\ IF ytPlayer = "ready" /\ ytState # "PLAYING"
     THEN /\ showYoutubeError' = TRUE
          /\ useFallback' = TRUE
          /\ ytState' = "CUED"
          /\ fbVolume' = w.volume
          /\ fbMuted' = w.isMuted
          /\ fbPlaying' = (fbPlaying \/ accepted)
          /\ fbRewound' = (fbRewound /\ ~accepted)
     ELSE UNCHANGED <<modeVars, ytState, fbVars>>
  /\ playRequest' = "none"
  /\ UNCHANGED <<now, hidden, timerVars, histVars, prefVars,
                 playReqAt, smoothVars, ytPlayer, ytMuted, ytVolume, ytRewound,
                 mounted>>

\* the IFrame API loads: initPlayer creates the player and onReady runs with
\* the volume and mute flag of the first render
YtApiReady ==
  /\ ytPlayer = "null"
  /\ ytPlayer' = "ready"
  /\ ytVolume' = mounted.volume
  /\ ytMuted' = mounted.isMuted
  /\ playRequest' = "none"
  /\ UNCHANGED <<now, hidden, timerVars, histVars, prefVars, modeVars, wdVars,
                 smoothVars, ytState, ytRewound, mounted, fbVars>>

\* the player starts playing: onStateChange(PLAYING) clears the watchdog
YtPlaying ==
  /\ ytPlayer = "ready"
  /\ ytState = "BUFFERING"
  /\ ytState' = "PLAYING"
  /\ watchdogs' = watchdogs \ {fallbackTimeoutRef}
  /\ fallbackTimeoutRef' = NoTimer
  /\ playReqAt' = -1
  /\ playRequest' = "none"
  /\ UNCHANGED <<now, hidden, timerVars, histVars, prefVars, modeVars,
                 smoothVars, ytPlayer, ytMuted, ytVolume,
                 ytRewound, mounted, fbVars>>

\* ---------------------------------------------------------------- events
\* Buttons, the slider and keys reach the page only while it is visible.
\* the Start button of the Idle view
ClickStart ==
  /\ ~hidden
  /\ appState = "Idle"
  /\ \E accepted \in BOOLEAN : handleStart(Render, accepted)
  /\ UNCHANGED restartTimer

\* the Pause button of the Active view
ClickPause == ~hidden /\ appState = "Active" /\ handlePause /\ UNCHANGED hidden

\* the Resume button of the Paused view
ClickResume ==
  ~hidden /\ appState = "Paused" /\ \E accepted \in BOOLEAN : handleResume(accepted)

\* the End button of the Active/Paused view, the home button of the Complete view
ClickEnd == ~hidden /\ appState \in {"Active", "Paused", "Complete"} /\ handleEnd

\* the Restart button of the Complete view
ClickRestart == ~hidden /\ appState = "Complete" /\ handleRestart

\* setTimeout(handleStart, 100) of handleRestart comes due
RestartTimerFires ==
  /\ restartTimer.armed
  /\ now >= restartTimer.deadline
  /\ \E accepted \in BOOLEAN : handleStart(restartTimer.render, accepted)
  /\ restartTimer' = NoTimer

\* the duration picker of the Idle view
SetDuration(d) ==
  /\ ~hidden
  /\ appState = "Idle"
  /\ duration' = d
  /\ UNCHANGED <<now, hidden, appState, remainingTime, currentPhase,
                 ariaAnnouncement, startTimeRef, pauseTimeRef, lastPhaseRef,
                 framePending, restartTimer, musicVars, histVars>>

\* handleKeyDown in which Enter starts a session in every state
handleKeyDownEnterAnyState(key) ==
  IF key = "Enter"
  THEN (\E accepted \in BOOLEAN : handleStart(Render, accepted)) /\ UNCHANGED restartTimer
  ELSE IF appState = "Active" /\ key = " " THEN handlePause /\ UNCHANGED hidden
  ELSE IF appState = "Paused" /\ key = " "
  THEN \E accepted \in BOOLEAN : handleResume(accepted)
  ELSE IF appState \in {"Active", "Paused"} /\ key = "Escape" THEN handleEnd
  ELSE UNCHANGED vars

handleKeyDown(key) ==
  IF appState = "Idle" /\ key = "Enter"
  THEN (\E accepted \in BOOLEAN : handleStart(Render, accepted)) /\ UNCHANGED restartTimer
  ELSE IF appState = "Active" /\ key = " " THEN handlePause /\ UNCHANGED hidden
  ELSE IF appState = "Paused" /\ key = " "
  THEN \E accepted \in BOOLEAN : handleResume(accepted)
  ELSE IF appState \in {"Active", "Paused"} /\ key = "Escape" THEN handleEnd
  ELSE UNCHANGED vars

\* handleVisibilityChange that resumes a paused session when the page is
\* visible again
handleVisibilityChangeAutoResume(h) ==
  /\ h # hidden
  /\ hidden' = h
  /\ IF h /\ appState = "Active"
     THEN handlePause
     ELSE IF ~h /\ appState = "Paused"
     THEN \E accepted \in BOOLEAN :
             /\ SetMusic(IF ~isMuted THEN playMusic(Music, Render, accepted) ELSE Music)
             /\ startTimeRef' = startTimeRef + (now - pauseTimeRef)
             /\ appState' = "Active"
             /\ framePending' = FrameEffect("Active")
             /\ UNCHANGED <<now, duration, remainingTime, currentPhase,
                            ariaAnnouncement, pauseTimeRef, lastPhaseRef,
                            restartTimer, histVars, prefVars, ytPlayer, mounted,
                            smoothVars>>
     ELSE UNCHANGED <<now, timerVars, musicVars, histVars>>

handleVisibilityChange(h) ==
  /\ h # hidden
  /\ hidden' = h
  /\ IF h /\ appState = "Active"
     THEN handlePause
     ELSE UNCHANGED <<now, timerVars, musicVars, histVars>>

\* the frame callback requested by the effect or by tick runs
Frame ==
  /\ framePending
  /\ ~hidden
  /\ tick(now)

\* the clock moves on by d; a pending timeout comes due before the clock
\* passes its deadline, and a pending frame callback of a visible page runs
\* (within a display frame) before the clock is observed again
AdvanceTime(d) ==
  /\ d > 0
  /\ (framePending /\ ~hidden) => frameRan
  /\ frameRan' = FALSE
  /\ restartTimer.armed => now + d <= restartTimer.deadline
  /\ \A w \in watchdogs : now + d <= w.deadline
  /\ now' = now + d
  /\ activeTime' = IF appState = "Active" THEN activeTime + d ELSE activeTime
  /\ ytRewound' = (ytRewound /\ ytState # "PLAYING")
  /\ fbRewound' = (fbRewound /\ ~fbPlaying)
  /\ playRequest' = "none"
  /\ UNCHANGED <<hidden, timerVars, prefVars, ytPlayer, ytState, ytMuted,
                 ytVolume, mounted, fbPlaying, fbMuted, fbVolume, modeVars,
                 wdVars, smoothVars>>

\* the gaps to the pending deadlines
DeadlineGaps ==
  {w.deadline - now : w \in watchdogs}
    \cup (IF restartTimer.armed THEN {restartTimer.deadline - now} ELSE {})

\* the gaps at which the session-timer runs observe the clock
TimerSteps ==
  {d \in FineDeltas : now + d <= FineSpan}
    \cup {CoarseStep - (now % CoarseStep)}

Init ==
  /\ now = 0
  /\ hidden = FALSE
  /\ appState = "Idle"
  /\ duration \in DURATION_OPTIONS
  /\ remainingTime = duration
  /\ currentPhase = "holdOut"
  /\ ariaAnnouncement = ""
  /\ startTimeRef = 0
  /\ pauseTimeRef = 0
  /\ lastPhaseRef = "null"
  /\ framePending = FALSE
  /\ restartTimer = NoTimer
  /\ isMuted \in BOOLEAN
  /\ volume \in Volumes
  /\ useFallback = FALSE
  /\ showYoutubeError = FALSE
  /\ fallbackTimeoutRef = NoTimer
  /\ watchdogs = {}
  /\ ytPlayer = "null"
  /\ ytState = "UNSTARTED"
  /\ ytMuted = FALSE
  /\ ytVolume = 100
  /\ ytRewound = TRUE
  /\ fbPlaying = FALSE
  /\ fbMuted = FALSE
  /\ fbVolume = 100
  /\ fbRewound = TRUE
  /\ smoothVolumeInterval = NoTimer
  /\ intervals = {}
  /\ mounted = [volume |-> volume, isMuted |-> isMuted]
  /\ frameRan = FALSE
  /\ playRequest = "none"
  /\ activeTime = 0
  /\ playReqAt = -1

\* The session timer with the music left alone: the persisted preference is
\* muted (its default) and the music controls are not touched.
InitTimer == Init /\ isMuted = TRUE /\ volume = DEFAULT_VOLUME

NextTimer ==
  \/ ClickStart
  \/ ClickPause
  \/ ClickResume
  \/ ClickEnd
  \/ ClickRestart
  \/ RestartTimerFires
  \/ \E key \in Keys : ~hidden /\ handleKeyDown(key)
  \/ \E h \in BOOLEAN : handleVisibilityChange(h)
  \/ Frame
  \/ \E d \in TimerSteps \cup DeadlineGaps : now + d <= MaxNow /\ AdvanceTime(d)

SpecTimer == InitTimer /\ [][NextTimer]_vars

\* The phase display at sub-second frame spacing: sessions of the default
\* duration are started, paused, resumed and ended during the first cycle.
InitPhase == InitTimer /\ duration = DEFAULT_DURATION

NextPhase ==
  \/ ClickStart
  \/ ClickPause
  \/ ClickResume
  \/ ClickEnd
  \/ Frame
  \/ now + PhaseStep <= MaxNowPhase /\ AdvanceTime(PhaseStep)

SpecPhase == InitPhase /\ [][NextPhase]_vars

\* The session driven from the keyboard alone, with either mute preference.
InitKeys == Init /\ duration = DEFAULT_DURATION /\ volume = DEFAULT_VOLUME

NextKeys ==
  \/ \E key \in Keys : ~hidden /\ handleKeyDown(key)
  \/ Frame
  \/ \E d \in TimerSteps : now + d <= MaxNow /\ AdvanceTime(d)

SpecKeys == InitKeys /\ [][NextKeys]_vars

\* The music controller with a coarse clock, the default duration and the
\* default volume at page load.  The smoothing callback (SmoothStep) is left
\* to SpecVolume: it writes only ytVolume and the interval handle, which no
\* other operation reads except smoothSetVolume itself, so leaving it out
\* changes no other variable of any reachable state.  The keyboard and the
\* visibility event call the same handlers as the buttons; they are part of
\* SpecTimer.
MusicSteps ==
  {MusicStep - (now % MusicStep)}
    \cup {d \in DeadlineGaps : ((now + d) % MusicStep) <= MusicSpan}

InitMusic == Init /\ duration = DEFAULT_DURATION /\ volume = DEFAULT_VOLUME

Next ==
  \/ ClickStart
  \/ ClickPause
  \/ ClickResume
  \/ ClickEnd
  \/ ClickRestart
  \/ RestartTimerFires
  \/ Frame
  \/ \E accepted \in BOOLEAN : handleMuteToggle(accepted)
  \/ \E v \in Volumes \ {volume} : handleVolumeChange(v)
  \/ \E w \in watchdogs, accepted \in BOOLEAN : WatchdogFires(w, accepted)
  \/ YtApiReady
  \/ YtPlaying
  \/ \E d \in MusicSteps : now + d <= MaxNowMusic /\ AdvanceTime(d)

Spec == InitMusic /\ [][Next]_vars

\* The page is hidden and shown again during sessions with music.
InitHidden == InitMusic

NextHidden ==
  \/ YtApiReady
  \/ YtPlaying
  \/ ClickStart
  \/ ClickResume
  \/ ClickEnd
  \/ \E h \in BOOLEAN : handleVisibilityChange(h)
  \/ Frame
  \/ \E w \in watchdogs, accepted \in BOOLEAN : WatchdogFires(w, accepted)
  \/ \E d \in MusicSteps : now + d <= MaxNowMusic /\ AdvanceTime(d)

SpecHidden == InitHidden /\ [][NextHidden]_vars

\* Sessions with music under fair scheduling: a pending frame callback of a
\* visible page runs, a timeout that is due fires and the clock moves on.
\* The clock is also observed at the instant the Active session is due to end.
SessionEndGap ==
  IF appState = "Active" /\ startTimeRef + duration * 1000 > now
  THEN {startTimeRef + duration * 1000 - now} ELSE {}

LiveSteps == {MusicStep - (now % MusicStep)} \cup DeadlineGaps \cup SessionEndGap

TimePasses == \E d \in LiveSteps : now + d <= MaxNowLive /\ AdvanceTime(d)

WatchdogDue == \E w \in watchdogs, accepted \in BOOLEAN : WatchdogFires(w, accepted)

InitLive == InitMusic

NextLive ==
  \/ YtApiReady
  \/ YtPlaying
  \/ ClickStart
  \/ ClickPause
  \/ ClickResume
  \/ ClickEnd
  \/ \E h \in BOOLEAN : handleVisibilityChange(h)
  \/ Frame
  \/ WatchdogDue
  \/ TimePasses

SpecLive ==
  /\ InitLive
  /\ [][NextLive]_vars
  /\ WF_vars(Frame)
  /\ WF_vars(WatchdogDue)
  /\ WF_vars(TimePasses)

\* Volume smoothing: the player is started, the user moves the slider and
\* toggles mute, the interval callback runs, and the watchdog may switch to
\* the backup backend.  The clock is observed when a watchdog comes due.
InitVolume == InitMusic

NextVolume ==
  \/ YtApiReady
  \/ ClickStart
  \/ YtPlaying
  \/ Frame
  \/ \E accepted \in BOOLEAN : handleMuteToggle(accepted)
  \/ \E v \in Volumes \ {volume} : handleVolumeChange(v)
  \/ \E it \in intervals : SmoothStep(it)
  \/ WatchdogDue
  \/ \E d \in {w.deadline - now : w \in watchdogs} :
        now + d <= MaxNowVolume /\ AdvanceTime(d)

SpecVolume == InitVolume /\ [][NextVolume]_vars

\* Timer handles: play requests (Start, Resume), pauses, stops (End), volume
\* changes, the smoothing callback and the watchdog interleave freely.  The
\* clock is observed every HandleStep and when a watchdog comes due.
InitHandles == InitMusic /\ ~isMuted

NextHandles ==
  \/ YtApiReady
  \/ YtPlaying
  \/ ClickStart
  \/ ClickPause
  \/ ClickResume
  \/ ClickEnd
  \/ Frame
  \/ \E v \in Volumes \ {volume} : handleVolumeChange(v)
  \/ \E it \in intervals : SmoothStep(it)
  \/ WatchdogDue
  \/ \E d \in {HandleStep} \cup {w.deadline - now : w \in watchdogs} :
        now + d <= MaxNowHandles /\ AdvanceTime(d)

SpecHandles == InitHandles /\ [][NextHandles]_vars

\* The session timer with the duration picker: between sessions the user
\* picks another duration, also within the delay of a Restart.  Music muted.
InitDuration == InitTimer

NextDuration ==
  \/ ClickStart
  \/ ClickPause
  \/ ClickResume
  \/ ClickEnd
  \/ ClickRestart
  \/ RestartTimerFires
  \/ \E d \in DURATION_OPTIONS \ {duration} : SetDuration(d)
  \/ Frame
  \/ \E d \in TimerSteps \cup DeadlineGaps : now + d <= MaxNow /\ AdvanceTime(d)

SpecDuration == InitDuration /\ [][NextDuration]_vars

\* ================================================================ claims
\* ---------------------------------------------------------------- C1
\* C1: time spent Paused is not counted.  While the session is Active the
\* elapsed time the code measures (now - startTimeRef) is the time spent
\* Active since Start, so right after Resume it equals the elapsed time at
\* Pause; and the remaining time a tick has set is
\* ceil((duration*1000 - active time) / 1000).
C1_PausedTimeExcluded ==
  /\ appState = "Active" => now - startTimeRef = activeTime
  /\ (appState = "Active" /\ frameRan) =>
        remainingTime = CeilSeconds(Max(0, duration * 1000 - activeTime))

\* C1 witness: paused at 4 s of the session, resumed at least 50 s later, and
\* the tick after Resume shows duration - 4 seconds.
C1_ResumedAfterLongPause ==
  /\ appState = "Active"
  /\ frameRan
  /\ pauseTimeRef = 4000
  /\ activeTime = 4000
  /\ startTimeRef >= 50000
  /\ remainingTime = duration - 4

\* ---------------------------------------------------------------- C2
\* C2: a tick that does not complete the session sets the displayed phase
\* from elapsed mod 16000: Inhale on [0,4000), HoldIn on [4000,6000), Exhale
\* on [6000,12000), HoldOut on [12000,16000).
C2_PhaseWindows ==
  [][(Frame /\ appState' = "Active") =>
       LET e == (now - startTimeRef) % 16000
       IN  currentPhase' = IF e < 4000 THEN "inhale"
                           ELSE IF e < 6000 THEN "holdIn"
                           ELSE IF e < 12000 THEN "exhale"
                           ELSE "holdOut"]_vars

\* C2 witness: a tick at elapsed 12000, the first instant of HoldOut.
C2_TickAtHoldOutBoundary ==
  /\ appState = "Active"
  /\ frameRan
  /\ now - startTimeRef = 12000
  /\ currentPhase = "holdOut"
  /\ lastPhaseRef = "holdOut"

\* ---------------------------------------------------------------- C3
\* C3: during a session every change of the displayed phase goes to the next
\* phase of the cycle Inhale, HoldIn, Exhale, HoldOut, Inhale, ...
C3_PhaseSequenceCyclic ==
  [][(appState = "Active" /\ appState' = "Active" /\ currentPhase' # currentPhase) =>
       \E i \in 1..Len(PhaseOrder) :
          /\ currentPhase = PhaseOrder[i]
          /\ currentPhase' = PhaseOrder[(i % Len(PhaseOrder)) + 1]]_vars

\* ---------------------------------------------------------------- C4
\* C4: the session becomes Complete only by a tick of an Active session whose
\* active time has reached duration*1000 ms, and every tick at which that
\* holds completes it (so the first such tick does), however long it was
\* paused.
C4_CompleteAtDuration ==
  [][/\ (appState # "Complete" /\ appState' = "Complete") =>
          (Frame /\ appState = "Active" /\ activeTime >= duration * 1000)
     /\ (Frame /\ activeTime >= duration * 1000) => appState' = "Complete"
     /\ (Frame /\ activeTime < duration * 1000) => appState' = "Active"]_vars

\* C4 witness: a session that was paused on the way is Complete.
C4_CompletedAfterPause ==
  /\ appState = "Complete"
  /\ pauseTimeRef > 0
  /\ startTimeRef > 0
  /\ activeTime >= duration * 1000
  /\ remainingTime = 0

\* ---------------------------------------------------------------- C5
\* C5: more than 3000 ms after a play request on the primary backend that
\* the primary has not answered by playing and that no pause or stop has
\* withdrawn (the primary being unavailable included), the controller is in
\* fallback mode and the error flag is set.
C5_FallbackAfterWatchdogDelay ==
  (playReqAt >= 0 /\ now > playReqAt + 3000) =>
     (useFallback /\ showYoutubeError)

\* ---------------------------------------------------------------- C6
\* C6: no operation clears fallback mode once it is set, and none clears
\* the error flag once it is set.
C6_FallbackPermanent ==
  [][/\ useFallback => useFallback'
     /\ showYoutubeError => showYoutubeError']_vars

\* C6 witness: the switch happened during a session that then ran to
\* Complete, and fallback mode and the error flag are still set.
C6_FallbackKeptToComplete ==
  /\ useFallback
  /\ showYoutubeError
  /\ appState = "Complete"

\* ---------------------------------------------------------------- C7
\* C7: the step that switches to the fallback backend leaves the backup
\* audio with the mute flag and the volume of the current preference.
C7_SwitchUsesCurrentSettings ==
  [][(~useFallback /\ useFallback') =>
        (fbMuted' = isMuted' /\ fbVolume' = volume')]_vars

\* ---------------------------------------------------------------- C8
\* C8: a volume change to 0 leaves the preference muted, and a volume change
\* to a positive value while muted leaves it unmuted, in every backend state.
C8_VolumeMuteSync ==
  [][(volume' # volume) =>
        /\ (volume' = 0 => isMuted')
        /\ (volume' > 0 /\ isMuted => ~isMuted')]_vars

\* ---------------------------------------------------------------- C9
\* C9: a mute toggle that mutes leaves no watchdog pending, the active
\* backend not playing and no play request; one that unmutes issues a play
\* request on the backend in use when the session is Active or Paused, and
\* none when it is Idle or Complete.
C9_MuteToggleMusic ==
  [][(isMuted' # isMuted /\ volume' = volume) =>
        /\ isMuted' =>
             /\ watchdogs' = {}
             /\ fallbackTimeoutRef' = NoTimer
             /\ playRequest' = "none"
             /\ useFallback => ~fbPlaying'
             /\ (~useFallback /\ ytPlayer = "ready") =>
                   ytState' \notin {"PLAYING", "BUFFERING"}
        /\ (~isMuted' /\ appState \in {"Active", "Paused"}) =>
             playRequest' = IF useFallback THEN "fallback" ELSE "primary"
        /\ (~isMuted' /\ appState \in {"Idle", "Complete"}) =>
             /\ playRequest' = "none"
             /\ UNCHANGED <<ytState, fbPlaying, watchdogs>>]_vars

\* C9 witness: unmuted while Paused, a play request went to the primary.
C9_UnmutedWhilePaused ==
  /\ appState = "Paused"
  /\ ~isMuted
  /\ playRequest = "primary"
  /\ fallbackTimeoutRef # NoTimer

\* ---------------------------------------------------------------- C10
\* C10: the session state changes only Idle->Active, Active->Paused,
\* Paused->Active, Active->Idle, Paused->Idle, Active->Complete and
\* Complete->Idle, and the delayed Start of Restart runs only in Idle.
C10_TransitionsAndStartFromIdle ==
  [][/\ (appState' # appState) =>
          <<appState, appState'>> \in
             {<<"Idle", "Active">>, <<"Active", "Paused">>, <<"Paused", "Active">>,
              <<"Active", "Idle">>, <<"Paused", "Idle">>, <<"Active", "Complete">>,
              <<"Complete", "Idle">>}
     /\ (restartTimer.armed /\ ~restartTimer'.armed) => appState = "Idle"]_vars

\* ---------------------------------------------------------------- C11
\* C11: a key press acts by state: Enter in Idle starts a session, Space in
\* Active pauses, Space in Paused resumes, Escape in Active or Paused ends;
\* every other key/state combination leaves session state, timing and music
\* unchanged.
C11_KeyboardMapping ==
  [][\A key \in Keys :
       handleKeyDown(key) =>
         IF appState = "Idle" /\ key = "Enter"
         THEN /\ appState' = "Active"
              /\ startTimeRef' = now
              /\ remainingTime' = duration
         ELSE IF appState = "Active" /\ key = " "
         THEN appState' = "Paused" /\ pauseTimeRef' = now
         ELSE IF appState = "Paused" /\ key = " "
         THEN /\ appState' = "Active"
              /\ startTimeRef' = startTimeRef + (now - pauseTimeRef)
         ELSE IF appState \in {"Active", "Paused"} /\ key = "Escape"
         THEN appState' = "Idle"
         ELSE UNCHANGED <<timerVars, musicVars>>]_vars

\* C11 witness: Enter started a session, Space paused it at a later time,
\* Space resumed it after a pause and Escape ended it.
C11_AllKeysUsed ==
  /\ appState = "Idle"
  /\ pauseTimeRef > 0
  /\ startTimeRef > pauseTimeRef

\* ---------------------------------------------------------------- C12
\* C12: when the page becomes hidden while the session is Active, the session
\* becomes Paused, the pause timestamp is the current time, no backend is
\* playing and no watchdog is pending; a visibility change in any other
\* state, and the page becoming visible again, change neither the session
\* nor the music.
C12_HiddenForcesPause ==
  [][(hidden' # hidden) =>
       IF hidden' /\ appState = "Active"
       THEN /\ appState' = "Paused"
            /\ pauseTimeRef' = now
            /\ ~framePending'
            /\ ~fbPlaying'
            /\ ytState' \notin {"PLAYING", "BUFFERING"}
            /\ watchdogs' = {}
       ELSE UNCHANGED <<timerVars, musicVars>>]_vars

\* C12 witness: the page was hidden while music played on the primary
\* backend in an Active session; the session is Paused and the music paused.
C12_PausedByHiding ==
  /\ hidden
  /\ appState = "Paused"
  /\ pauseTimeRef = now
  /\ now > 0
  /\ ~isMuted
  /\ ytState = "PAUSED"

\* ---------------------------------------------------------------- C13
\* C13: an Active session whose end lies within the clock's range is
\* eventually Complete unless it is paused or ended (hiding the page pauses
\* it); and the step into Complete leaves no backend playing, no watchdog
\* and no frame callback pending, and emits the completion announcement.
C13_EventuallyComplete ==
  /\ (appState = "Active" /\ startTimeRef + duration * 1000 <= MaxNowLive)
       ~> (appState \in {"Complete", "Paused", "Idle"})
  /\ [][(appState # "Complete" /\ appState' = "Complete") =>
          /\ ariaAnnouncement' = "session complete"
          /\ ~framePending'
          /\ ~fbPlaying'
          /\ ytState' \notin {"PLAYING", "BUFFERING"}
          /\ watchdogs' = {}]_vars

\* C13 witness: a session with music that was never paused is Complete at
\* exactly its duration, the music stopped and rewound.
C13_CompletedUninterrupted ==
  /\ appState = "Complete"
  /\ ~isMuted
  /\ pauseTimeRef = 0
  /\ activeTime = duration * 1000
  /\ ariaAnnouncement = "session complete"
  /\ ~framePending
  /\ ytState = "PAUSED"
  /\ ytRewound

C17_StartResetsTiming ==
  [][/\ (ClickStart \/ RestartTimerFires \/ (appState = "Idle" /\ handleKeyDown("Enter"))) =>
          /\ startTimeRef' = now
          /\ pauseTimeRef' = 0
          /\ remainingTime' = duration
          /\ (playRequest' # "none") <=> ~isMuted
     /\ (ClickResume \/ (appState = "Paused" /\ handleKeyDown(" "))) =>
          ((playRequest' # "none") <=> ~isMuted)]_vars

\* ---------------------------------------------------------------- C18
\* C18: each run of the smoothing callback is one of at most 10 steps; step
\* i sets the primary volume to from + i*(target - from)/10 rounded to the
\* nearest integer (halves up), and step 10 sets it to the target and clears
\* the smoothing timer; a volume change in fallback mode sets the backup
\* volume to the new value in the same step; a volume change while the
\* primary player exists is applied to it (at once or by an armed smoothing
\* run towards the new value), also when it has not started yet.
C18_VolumeApplied ==
  [][/\ \A it \in intervals :
          SmoothStep(it) =>
            LET i == it.i + 1
                x == SMOOTH_STEPS * it.from + i * (it.target - it.from)
            IN  /\ i <= 10
                /\ 10 * ytVolume' - x > -5
                /\ 10 * ytVolume' - x <= 5
                /\ (i = 10) =>
                     /\ ytVolume' = it.target
                     /\ smoothVolumeInterval' = NoTimer
                     /\ intervals' = {}
     /\ (volume' # volume /\ useFallback) => fbVolume' = volume'
     /\ (volume' # volume /\ ~useFallback /\ ytPlayer = "ready") =>
          \/ ytVolume' = volume'
          \/ /\ smoothVolumeInterval'.armed
             /\ smoothVolumeInterval'.target = volume']_vars
\* ---------------------------------------------------------------- C19
\* C19: under any interleaving of play requests, pauses, stops and volume
\* changes at most one watchdog timeout and at most one smoothing interval are
\* pending, and a pending one is the one its handle names; a timer that runs
\* is therefore the newest one armed, and arming a timer leaves no other
\* timer of its kind pending.
C19_SingleTimerPerHandle ==
  /\ [](/\ Cardinality(watchdogs) <= 1
        /\ Cardinality(intervals) <= 1
        /\ watchdogs \subseteq {fallbackTimeoutRef}
        /\ intervals \subseteq {smoothVolumeInterval})
  /\ [][/\ \A w \in watchdogs' \ watchdogs :
             watchdogs' = {w} /\ fallbackTimeoutRef' = w
        /\ \A it \in intervals' \ intervals :
             intervals' = {it} /\ smoothVolumeInterval' = it
        /\ \A w \in watchdogs :
             (\E accepted \in BOOLEAN : WatchdogFires(w, accepted))
               => fallbackTimeoutRef = w
        /\ \A it \in intervals : SmoothStep(it) => smoothVolumeInterval = it]_vars

\* a smoothing interval that replaced an interrupted one (it starts from a
\* volume in the middle of a ramp) is pending next to a watchdog that was
\* armed by a play request later than the Start of the session (a Resume
\* after a pause that followed some Active time)
C19_BothTimersReplaced ==
  /\ \E it \in intervals : it.i = 0 /\ it.from \notin Volumes
  /\ \E w \in watchdogs : w.deadline > startTimeRef + WATCHDOG_DELAY
  /\ appState = "Active"
  /\ activeTime > 0
\* ---------------------------------------------------------------- C20
\* C20: whenever the session is Idle or Complete no music backend is playing
\* and no watchdog is pending; the step that ends or completes a session
\* leaves the backend in use (the backup, or the primary player once it
\* exists) stopped and rewound; and no step taken in Idle or Complete asks a
\* backend to play, whether it toggles mute or changes the volume.
C20_SilentOutsideSession ==
  /\ [](appState \in {"Idle", "Complete"} =>
          /\ ~fbPlaying
          /\ ytState \notin {"PLAYING", "BUFFERING"}
          /\ watchdogs = {}
          /\ fallbackTimeoutRef = NoTimer)
  /\ [][/\ (appState \in {"Active", "Paused"} /\ appState' \in {"Idle", "Complete"})
             => IF useFallback THEN ~fbPlaying' /\ fbRewound'
                ELSE ytPlayer = "ready" => ytRewound'
        /\ (appState \in {"Idle", "Complete"} /\ appState' = appState)
             => /\ playRequest' = "none"
                /\ ~fbPlaying'
                /\ ytState' \notin {"PLAYING", "BUFFERING"}]_vars

\* an unmuted session on the primary player has run to completion: the
\* player, which had been asked to play, is paused and rewound, and no
\* watchdog is left
C20_CompletedWithPrimaryStopped ==
  /\ appState = "Complete"
  /\ ~useFallback
  /\ ~isMuted
  /\ ytState = "PAUSED"
  /\ ytRewound
  /\ watchdogs = {}
  /\ activeTime >= DEFAULT_DURATION * 1000
\* ---------------------------------------------------------------- C21
\* C21: whenever the session is Active and a music backend is available (the
\* backup backend is in use, or the primary player exists), music is playing
\* or a play request is outstanding if and only if the mute preference is
\* false, whichever control last changed the preference.
C21_PlayingIffUnmuted ==
  (appState = "Active" /\ (useFallback \/ ytPlayer = "ready")) =>
    ((IF useFallback THEN fbPlaying
      ELSE ytState \in {"PLAYING", "BUFFERING"} \/ playReqAt >= 0)
       <=> ~isMuted)
\* ---------------------------------------------------------------- C22
\* C22: while the remaining time is reported (Active, Paused) and in Complete
\* it is a whole number of seconds between 0 and the configured duration, and
\* it is 0 exactly in Complete; no tick increases it, whether the tick follows
\* a Start, another tick or a Pause and Resume; and a tick brings it to 0
\* exactly when it completes the session.
C22_RemainingTimeBounded ==
  /\ [](appState \in {"Active", "Paused", "Complete"} =>
          /\ remainingTime \in 0..duration
          /\ (remainingTime = 0 <=> appState = "Complete"))
  /\ [][Frame => /\ remainingTime' <= remainingTime
                 /\ (remainingTime' = 0 <=> appState' = "Complete")]_vars

====
